---- MODULE Spec2Model ----
(***************************************************************************)
(* Session / identity consistency engine of flexer-osint (src/App.tsx).    *)
(*                                                                         *)
(* Each device runs one App component: the onAuthStateChanged callback     *)
(* (an async function that suspends at getDoc and at setDoc), the          *)
(* onSnapshot profile listener it opens, the "Resume on this device"       *)
(* button and handleLogout.  The identity provider and the profile         *)
(* repository are the environment: the provider reports a subject or no    *)
(* subject, the repository commits writes one at a time and sends every    *)
(* live listener of a document the committed values in commit order.       *)
(***************************************************************************)
EXTENDS Integers, Sequences, FiniteSets, TLC

Devices == {"A", "B"}
Uids == {"u1", "u2"}

\* the accounts the person at each device can sign in to
UidsOf(d) == IF d = "A" THEN Uids ELSE {"u2"}

\* bounds of the model
MaxTok == 3
MaxHandles == 2
MaxQueue == 2
MaxOps == 5

\* how much of the bound MaxOps a failure (a failed call, a session ended by
\* the provider) and an administrator write use
FaultCost == 2
AdminCost == 2

NoUser == "none"
NoSid == 0
NoError == "none"
NoMeta == "none"
NoSessions == <<>>
NoResult == "none"

\* the id of a device session listed in authorizedSessions of a record
\* before any device starts
LegacySid == MaxTok + 1
ErrCodes == {"permission-denied", "unavailable"}

\* a missing document / a null profile
NoDoc == [exists |-> FALSE, uid |-> NoUser, isAdmin |-> FALSE,
          isOwner |-> FALSE, isApproved |-> FALSE, lastSessionId |-> NoSid,
          pendingSessionId |-> NoSid, pendingSessionMetadata |-> NoMeta,
          authorizedSessions |-> NoSessions]

\* users/u1 exists before any device starts: the approved administrator
\* who owns the deployment, whose record was written outside this program
AdminDoc == [exists |-> TRUE, uid |-> "u1", isAdmin |-> TRUE,
             isOwner |-> TRUE, isApproved |-> TRUE, lastSessionId |-> NoSid,
             pendingSessionId |-> NoSid, pendingSessionMetadata |-> NoMeta,
             authorizedSessions |-> <<LegacySid>>]

VARIABLES
    rec,              \* users/{uid} documents of the repository
    authUser,         \* the provider's current subject on each device
    notified,         \* the provider has reported its state to the device
    stored,           \* localStorage 'flexer_sid' of each device
    nextTok,          \* the next value uuidv4() returns
    user,             \* React state of App, per device
    profile,
    loading,
    sessionConflict,
    permissionError,
    inflight,         \* suspended invocations of the auth callback
    subs,             \* live onSnapshot listeners of each device
    resumed,          \* history: the device's Resume is the latest claim on its record
    signedOut,        \* history: the token the device's last handleLogout removed
    accepted,         \* history: the token an acceptance wrote, while it is the latest claim
    dash,             \* React state and tools listener of each device's UserDashboard
    ops               \* external events so far (bounds the exploration)

vars == <<rec, authUser, notified, stored, nextTok, user, profile, loading,
          sessionConflict, permissionError, inflight, subs, resumed, signedOut,
          accepted, dash, ops>>

RemoveAt(s, i) == [j \in 1..(Len(s) - 1) |-> IF j < i THEN s[j] ELSE s[j + 1]]

\* a token store that hands out the same token again after removeItem
getLocalSessionId_fixedToken(d) == IF stored[d] = NoSid THEN 1 ELSE stored[d]

\* getLocalSessionId: the stored token, or a fresh one that is then stored
getLocalSessionId(d) == IF stored[d] = NoSid THEN nextTok ELSE stored[d]

\* the newProfile literal of the new-user branch
newProfile(u, sid) == [exists |-> TRUE, uid |-> u, isAdmin |-> FALSE,
                       isOwner |-> FALSE, isApproved |-> FALSE,
                       lastSessionId |-> sid, pendingSessionId |-> NoSid,
                       pendingSessionMetadata |-> NoMeta,
                       authorizedSessions |-> NoSessions]

\* the claim written without {merge: true}: the document is replaced
mergeSid_overwrite(doc, u, sid) == newProfile(u, sid)

\* setDoc(ref, {lastSessionId: sid}, {merge: true})
mergeSid(doc, u, sid) == [doc EXCEPT !.exists = TRUE, !.lastSessionId = sid]

\* a catch block that reports permission-denied only, as the listener does
bootstrapErrorText_onlyDenied(code) ==
    IF code = "permission-denied" THEN "Access Denied" ELSE NoError

\* a catch block that stores one text for every failure
bootstrapErrorText_sameText(code) == "System Error"

\* the text the catch block stores for a failed getDoc / setDoc
bootstrapErrorText(code) ==
    IF code = "permission-denied" THEN "Access Denied" ELSE "System Error"

\* a listener that renders the record but never compares the tokens
conflictOf_never(data, sid) == FALSE

\* the comparison with === in place of !==
conflictOf_eq(data, sid) == data.lastSessionId = sid

\* the snapshot listener's comparison
conflictOf(data, sid) == data.lastSessionId # sid

\* the committed value of users/{u} is sent to every live listener of it
Notify(S, u, doc) ==
    [d \in Devices |->
        [k \in 1..Len(S[d]) |->
            IF S[d][k].uid = u
            THEN [S[d][k] EXCEPT !.queue = Append(@, doc)]
            ELSE S[d][k]]]

Room(u) == \A d \in Devices : \A k \in 1..Len(subs[d]) :
              subs[d][k].uid = u => Len(subs[d][k].queue) < MaxQueue

\* unsubscribeProfile(): closes the listener the variable refers to
Unsubscribe(s) == SelectSeq(s, LAMBDA x : ~x.cur)

\* onSnapshot(...) assigned to unsubscribeProfile
Subscribe(s, u, sid, doc) ==
    Append([k \in 1..Len(s) |-> [s[k] EXCEPT !.cur = FALSE]],
           [uid |-> u, sid |-> sid, cur |-> TRUE, queue |-> <<doc>>])

\* render branches in which the conflict check comes after the profile checks
Screen_conflictLast(d) ==
    IF loading[d] THEN "loading"
    ELSE IF permissionError[d] # NoError THEN "error"
    ELSE IF user[d] = NoUser THEN "unauth"
    ELSE IF ~profile[d].exists THEN "loading"
    ELSE IF profile[d].isAdmin THEN "admin"
    ELSE IF ~profile[d].isApproved THEN "pending"
    ELSE IF sessionConflict[d] THEN "conflict"
    ELSE "tool"

\* the render branches of App and of UserDashboard
Screen(d) ==
    IF loading[d] THEN "loading"
    ELSE IF permissionError[d] # NoError THEN "error"
    ELSE IF sessionConflict[d] THEN "conflict"
    ELSE IF user[d] = NoUser THEN "unauth"
    ELSE IF ~profile[d].exists THEN "loading"
    ELSE IF profile[d].isAdmin THEN "admin"
    ELSE IF ~profile[d].isApproved THEN "pending"
    ELSE "tool"

\* App returns <UserDashboard profile={profile} .../>
DashboardMounted(d) == Screen(d) \in {"pending", "tool"}

\* the state of a UserDashboard that is not mounted, and of one just mounted
\* before its effects have run
NoDash == [toolsSub |-> FALSE, pc |-> "idle", loading |-> FALSE,
           result |-> NoResult, aiAnalysis |-> "", error |-> ""]

\* the loading flag of the dashboard, which disables the submit button
DashLoading(d) == dash[d].loading

\* a tools effect with an empty dependency list and no guard: it
\* subscribes on mount and stays as it is until the unmount
toolsEffect_onMountOnly(d, mountedBefore, approvedBefore, approved, sub) ==
    IF ~mountedBefore THEN TRUE ELSE sub

\* the tools effect of UserDashboard, dependency list [profile.isApproved]:
\* on mount and on every change of isApproved the previous cleanup runs and
\* the listener is opened when isApproved holds
toolsEffect(d, mountedBefore, approvedBefore, approved, sub) ==
    IF ~mountedBefore \/ approved # approvedBefore THEN approved ELSE sub

\* what React does with the dashboard after the App state has changed:
\* an unmount discards the component's state and runs the cleanup, a mount
\* starts from the initial state, and the effects run after the render
DashboardFollows ==
    dash' = [d \in Devices |->
                IF ~DashboardMounted(d)' THEN NoDash
                ELSE LET before == IF DashboardMounted(d) THEN dash[d] ELSE NoDash IN
                     [before EXCEPT !.toolsSub =
                         toolsEffect(d, DashboardMounted(d), profile[d].isApproved,
                                     profile'[d].isApproved, before.toolsSub)]]

\* the buttons of the screen shown
Offers(d) ==
    CASE Screen(d) = "error" -> {"CopyRules", "Reload", "SignOut"}
      [] Screen(d) = "conflict" -> {"Resume", "SignOut"}
      [] Screen(d) = "unauth" -> {"Login", "Register"}
      [] Screen(d) = "admin" -> {"Administer", "SignOut"}
      [] Screen(d) = "pending" -> {"ContactAdmin", "SignOut"}
      [] Screen(d) = "tool" -> {"Lookup", "Password", "SignOut"}
      [] OTHER -> {}

\* one more provider or user event, within the bound
External ==
    /\ ops < MaxOps
    /\ ops' = ops + 1

\* one more failed repository call, or one more session ended by the
\* provider; both are rarer than user events
Fault ==
    /\ ops + FaultCost <= MaxOps
    /\ ops' = ops + FaultCost

\* one more administrator write
AdminOp ==
    /\ ops + AdminCost <= MaxOps
    /\ ops' = ops + AdminCost

\* a step of a handler that is already running
Internal == UNCHANGED ops

Init ==
    /\ rec = [u \in Uids |-> IF u = "u1" THEN AdminDoc ELSE NoDoc]
    /\ authUser = [d \in Devices |-> NoUser]
    /\ notified = [d \in Devices |-> FALSE]
    /\ stored = [d \in Devices |-> NoSid]
    /\ nextTok = 1
    /\ user = [d \in Devices |-> NoUser]
    /\ profile = [d \in Devices |-> NoDoc]
    /\ loading = [d \in Devices |-> TRUE]
    /\ sessionConflict = [d \in Devices |-> FALSE]
    /\ permissionError = [d \in Devices |-> NoError]
    /\ inflight = [d \in Devices |-> <<>>]
    /\ subs = [d \in Devices |-> <<>>]
    /\ resumed = [d \in Devices |-> FALSE]
    /\ signedOut = [d \in Devices |-> NoSid]
    /\ accepted = [u \in Uids |-> NoSid]
    /\ dash = [d \in Devices |-> NoDash]
    /\ ops = 0

\* history of claims: device d wrote a claim on users/{u}, by Resume or not
Claimed(d, u, byResume) ==
    /\ resumed' = [x \in Devices |->
                      IF x = d THEN byResume
                      ELSE IF user[x] = u THEN FALSE ELSE resumed[x]]
    /\ accepted' = [accepted EXCEPT ![u] = NoSid]

\* history of claims: an identity event of device d ends its resumed session
IdentityEvent(d) == resumed' = [resumed EXCEPT ![d] = FALSE]

\* a no-subject branch that clears the state but leaves the listener open
NoSubject_keepListener(d) ==
    /\ user' = [user EXCEPT ![d] = NoUser]
    /\ profile' = [profile EXCEPT ![d] = NoDoc]
    /\ sessionConflict' = [sessionConflict EXCEPT ![d] = FALSE]
    /\ subs' = subs
    /\ loading' = [loading EXCEPT ![d] = FALSE]
    /\ permissionError' = [permissionError EXCEPT ![d] = NoError]

\* the callback's else branch: no subject
NoSubject(d) ==
    /\ user' = [user EXCEPT ![d] = NoUser]
    /\ profile' = [profile EXCEPT ![d] = NoDoc]
    /\ sessionConflict' = [sessionConflict EXCEPT ![d] = FALSE]
    /\ subs' = [subs EXCEPT ![d] = Unsubscribe(@)]
    /\ loading' = [loading EXCEPT ![d] = FALSE]
    /\ permissionError' = [permissionError EXCEPT ![d] = NoError]

\* the provider reports subject u: the callback runs up to await getDoc
AuthSubject(d, u) ==
    /\ External
    /\ ~notified[d] \/ authUser[d] # u
    /\ Len(inflight[d]) + Len(subs[d]) < MaxHandles
    /\ stored[d] = NoSid => nextTok <= MaxTok
    /\ authUser' = [authUser EXCEPT ![d] = u]
    /\ notified' = [notified EXCEPT ![d] = TRUE]
    /\ loading' = [loading EXCEPT ![d] = TRUE]
    /\ permissionError' = [permissionError EXCEPT ![d] = NoError]
    /\ stored' = [stored EXCEPT ![d] = getLocalSessionId(d)]
    /\ nextTok' = IF stored[d] = NoSid THEN nextTok + 1 ELSE nextTok
    /\ inflight' = [inflight EXCEPT ![d] =
          Append(@, [uid |-> u, sid |-> getLocalSessionId(d), pc |-> "getDoc"])]
    /\ UNCHANGED <<rec, user, profile, sessionConflict, subs>>
    /\ IdentityEvent(d)
    /\ UNCHANGED <<signedOut, accepted>>
    /\ DashboardFollows

\* a no-subject handler that also removes the stored token
AuthNoSubject_clearsToken(d) ==
    /\ Fault
    /\ ~notified[d] \/ authUser[d] # NoUser
    /\ authUser' = [authUser EXCEPT ![d] = NoUser]
    /\ notified' = [notified EXCEPT ![d] = TRUE]
    /\ NoSubject(d)
    /\ stored' = [stored EXCEPT ![d] = NoSid]
    /\ UNCHANGED <<rec, nextTok, inflight>>
    /\ IdentityEvent(d)
    /\ UNCHANGED <<signedOut, accepted>>
    /\ DashboardFollows

\* the provider reports no subject (not caused by handleLogout)
AuthNoSubject(d) ==
    /\ Fault
    /\ ~notified[d] \/ authUser[d] # NoUser
    /\ authUser' = [authUser EXCEPT ![d] = NoUser]
    /\ notified' = [notified EXCEPT ![d] = TRUE]
    /\ NoSubject(d)
    /\ UNCHANGED <<rec, stored, nextTok, inflight>>
    /\ IdentityEvent(d)
    /\ UNCHANGED <<signedOut, accepted>>
    /\ DashboardFollows

\* a catch block after which the loading flag is not reset
BootstrapFails_keepsLoading(d, i, code) ==
    /\ permissionError' = [permissionError EXCEPT ![d] = bootstrapErrorText(code)]
    /\ loading' = loading
    /\ inflight' = [inflight EXCEPT ![d] = RemoveAt(@, i)]

\* the catch block, then setLoading(false)
BootstrapFails(d, i, code) ==
    /\ permissionError' = [permissionError EXCEPT ![d] = bootstrapErrorText(code)]
    /\ loading' = [loading EXCEPT ![d] = FALSE]
    /\ inflight' = [inflight EXCEPT ![d] = RemoveAt(@, i)]

\* await getDoc returns
GetDocOk(d, i) ==
    /\ Internal
    /\ i \in 1..Len(inflight[d])
    /\ inflight[d][i].pc = "getDoc"
    /\ LET inv == inflight[d][i] IN
       IF ~rec[inv.uid].exists
       THEN /\ inflight' = [inflight EXCEPT ![d][i].pc = "setDocNew"]
            /\ UNCHANGED profile
       ELSE /\ profile' = [profile EXCEPT ![d] =
                   [rec[inv.uid] EXCEPT !.lastSessionId = inv.sid]]
            /\ inflight' = [inflight EXCEPT ![d][i].pc = "setDocMerge"]
    /\ UNCHANGED <<rec, authUser, notified, stored, nextTok, user, loading,
                   sessionConflict, permissionError, subs>>
    /\ UNCHANGED <<resumed, signedOut, accepted>>
    /\ DashboardFollows

\* await getDoc throws
GetDocFail(d, i, code) ==
    /\ Fault
    /\ i \in 1..Len(inflight[d])
    /\ inflight[d][i].pc = "getDoc"
    /\ BootstrapFails(d, i, code)
    /\ UNCHANGED <<rec, authUser, notified, stored, nextTok, user, profile,
                   sessionConflict, subs>>
    /\ UNCHANGED <<resumed, signedOut, accepted>>
    /\ DashboardFollows

\* await setDoc returns: the write is committed, the listener is opened
SetDocOk(d, i) ==
    /\ Internal
    /\ i \in 1..Len(inflight[d])
    /\ inflight[d][i].pc \in {"setDocNew", "setDocMerge"}
    /\ LET inv == inflight[d][i]
           doc == IF inv.pc = "setDocNew"
                  THEN newProfile(inv.uid, inv.sid)
                  ELSE mergeSid(rec[inv.uid], inv.uid, inv.sid)
       IN /\ Room(inv.uid)
          /\ rec' = [rec EXCEPT ![inv.uid] = doc]
          /\ profile' = IF inv.pc = "setDocNew"
                        THEN [profile EXCEPT ![d] = newProfile(inv.uid, inv.sid)]
                        ELSE profile
          /\ subs' = [Notify(subs, inv.uid, doc) EXCEPT
                         ![d] = Subscribe(@, inv.uid, inv.sid, doc)]
          /\ user' = [user EXCEPT ![d] = inv.uid]
    /\ loading' = [loading EXCEPT ![d] = FALSE]
    /\ inflight' = [inflight EXCEPT ![d] = RemoveAt(@, i)]
    /\ UNCHANGED <<authUser, notified, stored, nextTok, sessionConflict,
                   permissionError>>
    /\ Claimed(d, inflight[d][i].uid, FALSE)
    /\ UNCHANGED signedOut
    /\ DashboardFollows

\* await setDoc throws
SetDocFail(d, i, code) ==
    /\ Fault
    /\ i \in 1..Len(inflight[d])
    /\ inflight[d][i].pc \in {"setDocNew", "setDocMerge"}
    /\ BootstrapFails(d, i, code)
    /\ UNCHANGED <<rec, authUser, notified, stored, nextTok, user, profile,
                   sessionConflict, subs>>
    /\ UNCHANGED <<resumed, signedOut, accepted>>
    /\ DashboardFollows

\* a next callback that updates the conflict flag but not the profile
Deliver_keepProfile(d, k) ==
    /\ Internal
    /\ k \in 1..Len(subs[d])
    /\ subs[d][k].queue # <<>>
    /\ LET data == Head(subs[d][k].queue) IN
       IF data.exists
       THEN /\ sessionConflict' = [sessionConflict EXCEPT ![d] =
                   conflictOf(data, subs[d][k].sid)]
            /\ UNCHANGED profile
       ELSE UNCHANGED <<profile, sessionConflict>>
    /\ subs' = [subs EXCEPT ![d][k].queue = Tail(@)]
    /\ UNCHANGED <<rec, authUser, notified, stored, nextTok, user, loading,
                   permissionError, inflight>>
    /\ UNCHANGED <<resumed, signedOut, accepted>>
    /\ DashboardFollows

\* a next callback that unsubscribes once it has detected a conflict
Deliver_closesOnConflict(d, k) ==
    /\ Internal
    /\ k \in 1..Len(subs[d])
    /\ subs[d][k].queue # <<>>
    /\ LET data == Head(subs[d][k].queue) IN
       IF data.exists
       THEN /\ profile' = [profile EXCEPT ![d] = data]
            /\ sessionConflict' = [sessionConflict EXCEPT ![d] =
                   conflictOf(data, subs[d][k].sid)]
            /\ subs' = IF conflictOf(data, subs[d][k].sid)
                       THEN [subs EXCEPT ![d] = RemoveAt(@, k)]
                       ELSE [subs EXCEPT ![d][k].queue = Tail(@)]
       ELSE /\ UNCHANGED <<profile, sessionConflict>>
            /\ subs' = [subs EXCEPT ![d][k].queue = Tail(@)]
    /\ UNCHANGED <<rec, authUser, notified, stored, nextTok, user, loading,
                   permissionError, inflight>>
    /\ UNCHANGED <<resumed, signedOut, accepted>>
    /\ DashboardFollows

\* a next callback that clears the profile when the document is gone
Deliver_clearsOnMissing(d, k) ==
    /\ Internal
    /\ k \in 1..Len(subs[d])
    /\ subs[d][k].queue # <<>>
    /\ LET data == Head(subs[d][k].queue) IN
       IF data.exists
       THEN /\ profile' = [profile EXCEPT ![d] = data]
            /\ sessionConflict' = [sessionConflict EXCEPT ![d] =
                   conflictOf(data, subs[d][k].sid)]
       ELSE /\ profile' = [profile EXCEPT ![d] = NoDoc]
            /\ UNCHANGED sessionConflict
    /\ subs' = [subs EXCEPT ![d][k].queue = Tail(@)]
    /\ UNCHANGED <<rec, authUser, notified, stored, nextTok, user, loading,
                   permissionError, inflight>>
    /\ UNCHANGED <<resumed, signedOut, accepted>>
    /\ DashboardFollows

\* the listener's next callback receives the oldest undelivered snapshot
Deliver(d, k) ==
    /\ Internal
    /\ k \in 1..Len(subs[d])
    /\ subs[d][k].queue # <<>>
    /\ LET data == Head(subs[d][k].queue) IN
       IF data.exists
       THEN /\ profile' = [profile EXCEPT ![d] = data]
            /\ sessionConflict' = [sessionConflict EXCEPT ![d] =
                   conflictOf(data, subs[d][k].sid)]
       ELSE UNCHANGED <<profile, sessionConflict>>
    /\ subs' = [subs EXCEPT ![d][k].queue = Tail(@)]
    /\ UNCHANGED <<rec, authUser, notified, stored, nextTok, user, loading,
                   permissionError, inflight>>
    /\ UNCHANGED <<resumed, signedOut, accepted>>
    /\ DashboardFollows

\* an error callback that shows the diagnostic whatever the error is
ListenerError_anyCode(d, k, code) ==
    /\ Fault
    /\ k \in 1..Len(subs[d])
    /\ permissionError' = [permissionError EXCEPT ![d] = "Listener Denied"]
    /\ subs' = [subs EXCEPT ![d] = RemoveAt(@, k)]
    /\ UNCHANGED <<rec, authUser, notified, stored, nextTok, user, profile,
                   loading, sessionConflict, inflight>>
    /\ UNCHANGED <<resumed, signedOut, accepted>>
    /\ DashboardFollows

\* the listener's error callback; the repository ends a failed listener
ListenerError(d, k, code) ==
    /\ Fault
    /\ k \in 1..Len(subs[d])
    /\ permissionError' = IF code = "permission-denied"
                          THEN [permissionError EXCEPT ![d] = "Listener Denied"]
                          ELSE permissionError
    /\ subs' = [subs EXCEPT ![d] = RemoveAt(@, k)]
    /\ UNCHANGED <<rec, authUser, notified, stored, nextTok, user, profile,
                   loading, sessionConflict, inflight>>
    /\ UNCHANGED <<resumed, signedOut, accepted>>
    /\ DashboardFollows

\* "Resume on this device": a merging write of the device's token
Resume(d) ==
    /\ External
    /\ Screen(d) = "conflict"
    /\ stored[d] = NoSid => nextTok <= MaxTok
    /\ stored' = [stored EXCEPT ![d] = getLocalSessionId(d)]
    /\ nextTok' = IF stored[d] = NoSid THEN nextTok + 1 ELSE nextTok
    /\ IF user[d] # NoUser
       THEN LET doc == mergeSid(rec[user[d]], user[d], getLocalSessionId(d)) IN
            /\ Room(user[d])
            /\ rec' = [rec EXCEPT ![user[d]] = doc]
            /\ subs' = Notify(subs, user[d], doc)
       ELSE UNCHANGED <<rec, subs>>
    /\ UNCHANGED <<authUser, notified, user, profile, loading,
                   sessionConflict, permissionError, inflight>>
    /\ IF user[d] # NoUser THEN Claimed(d, user[d], TRUE) ELSE UNCHANGED <<resumed, accepted>>
    /\ UNCHANGED signedOut
    /\ DashboardFollows

LogoutScreens == {"error", "conflict", "admin", "pending", "tool"}

\* a handleLogout that signs out but does not remove the stored token
Logout_keepsToken(d) ==
    /\ External
    /\ Screen(d) \in LogoutScreens
    /\ IF authUser[d] # NoUser
       THEN /\ authUser' = [authUser EXCEPT ![d] = NoUser]
            /\ NoSubject(d)
       ELSE UNCHANGED <<authUser, user, profile, sessionConflict, subs,
                        loading, permissionError>>
    /\ UNCHANGED <<rec, notified, stored, nextTok, inflight>>
    /\ IdentityEvent(d)
    /\ signedOut' = IF stored[d] # NoSid
                    THEN [signedOut EXCEPT ![d] = stored[d]]
                    ELSE signedOut
    /\ UNCHANGED accepted
    /\ DashboardFollows

\* a handleLogout that releases the authority: it clears lastSessionId of
\* the record of the device's user
Logout_releasesAuthority(d) ==
    /\ External
    /\ Screen(d) \in LogoutScreens
    /\ IF authUser[d] # NoUser
       THEN /\ authUser' = [authUser EXCEPT ![d] = NoUser]
            /\ NoSubject(d)
       ELSE UNCHANGED <<authUser, user, profile, sessionConflict, subs,
                        loading, permissionError>>
    /\ stored' = [stored EXCEPT ![d] = NoSid]
    /\ rec' = IF user[d] # NoUser
              THEN [rec EXCEPT ![user[d]].lastSessionId = NoSid]
              ELSE rec
    /\ UNCHANGED <<notified, nextTok, inflight>>
    /\ IdentityEvent(d)
    /\ signedOut' = IF stored[d] # NoSid
                    THEN [signedOut EXCEPT ![d] = stored[d]]
                    ELSE signedOut
    /\ UNCHANGED accepted
    /\ DashboardFollows

\* handleLogout: signOut (the provider then reports no subject), removeItem
Logout(d) ==
    /\ External
    /\ Screen(d) \in LogoutScreens
    /\ IF authUser[d] # NoUser
       THEN /\ authUser' = [authUser EXCEPT ![d] = NoUser]
            /\ NoSubject(d)
       ELSE UNCHANGED <<authUser, user, profile, sessionConflict, subs,
                        loading, permissionError>>
    /\ stored' = [stored EXCEPT ![d] = NoSid]
    /\ UNCHANGED <<rec, notified, nextTok, inflight>>
    /\ IdentityEvent(d)
    /\ signedOut' = IF stored[d] # NoSid
                    THEN [signedOut EXCEPT ![d] = stored[d]]
                    ELSE signedOut
    /\ UNCHANGED accepted
    /\ DashboardFollows

\* the administrator's handleToggleApproval on users/{u}
ToggleApproval(u, currentStatus) ==
    /\ AdminOp
    /\ rec[u].exists
    /\ Room(u)
    /\ LET doc == [rec[u] EXCEPT !.isApproved = ~currentStatus] IN
       /\ rec' = [rec EXCEPT ![u] = doc]
       /\ subs' = Notify(subs, u, doc)
    /\ UNCHANGED <<authUser, notified, stored, nextTok, user, profile, loading,
                   sessionConflict, permissionError, inflight>>
    /\ UNCHANGED <<resumed, signedOut, accepted>>
    /\ DashboardFollows

\* the re-authorization request of a device that is not the authoritative
\* one: it publishes its token as pendingSessionId of its user's record
RequestAuthorization(d) ==
    /\ External
    /\ user[d] # NoUser
    /\ stored[d] # NoSid
    /\ rec[user[d]].exists
    /\ rec[user[d]].lastSessionId # stored[d]
    /\ rec[user[d]].pendingSessionId # stored[d]
    /\ Room(user[d])
    /\ LET doc == [rec[user[d]] EXCEPT !.pendingSessionId = stored[d],
                                        !.pendingSessionMetadata = d] IN
       /\ rec' = [rec EXCEPT ![user[d]] = doc]
       /\ subs' = Notify(subs, user[d], doc)
    /\ UNCHANGED <<authUser, notified, stored, nextTok, user, profile, loading,
                   sessionConflict, permissionError, inflight>>
    /\ UNCHANGED <<resumed, signedOut, accepted>>
    /\ DashboardFollows

\* the record the administrator accepts, with its pendingSessionId as the
\* panel shows it: the record's value, or none when the panel has not
\* received the request
PendingViews(u) == {NoSid, rec[u].pendingSessionId}

\* the fields handleAuthorizeSession writes
authorizedDoc(doc, pending) ==
    [doc EXCEPT !.lastSessionId = pending,
                !.pendingSessionId = NoSid,
                !.pendingSessionMetadata = NoMeta]

\* the administrator's handleAuthorizeSession on users/{u}: one click on
\* the request as the panel shows it
AuthorizeSession(u, pending) ==
    /\ External
    /\ pending \in PendingViews(u)
    /\ rec[u].exists
    /\ IF pending = NoSid
       THEN UNCHANGED <<rec, subs>>
       ELSE /\ Room(u)
            /\ rec' = [rec EXCEPT ![u] = authorizedDoc(rec[u], pending)]
            /\ subs' = Notify(subs, u, authorizedDoc(rec[u], pending))
    /\ UNCHANGED <<authUser, notified, stored, nextTok, user, profile, loading,
                   sessionConflict, permissionError, inflight>>
    /\ resumed' = [x \in Devices |->
                      IF pending # NoSid /\ user[x] = u THEN FALSE ELSE resumed[x]]
    /\ accepted' = IF pending # NoSid
                   THEN [accepted EXCEPT ![u] = pending]
                   ELSE accepted
    /\ UNCHANGED signedOut
    /\ DashboardFollows

\* what fetch and response.json() of a lookup can do: a payload, a proxied
\* answer whose contents are not JSON (kept as text), a status that is not a
\* success, a rejected fetch, a body that response.json() cannot parse
FetchOutcomes == {"ok", "proxiedText", "status", "network", "unparsable"}

\* the outcomes after which setResult runs
FetchSuccesses == {"ok", "proxiedText"}

\* a lookup start that leaves the previous result on the screen
LookupStart_keepsResult(d) ==
    /\ External
    /\ Screen(d) = "tool"
    /\ ~DashLoading(d)
    /\ dash' = [dash EXCEPT ![d] = [@ EXCEPT !.loading = TRUE,
                                             !.aiAnalysis = "",
                                             !.error = "",
                                             !.pc = "fetch"]]
    /\ UNCHANGED <<rec, authUser, notified, stored, nextTok, user, profile,
                   loading, sessionConflict, permissionError, inflight, subs>>
    /\ UNCHANGED <<resumed, signedOut, accepted>>

\* the catch block of handleLookup
lookupCatch(s) == [s EXCEPT !.error = "Search failed"]

\* the finally block of handleLookup, which ends the handler
lookupFinally(s) == [s EXCEPT !.loading = FALSE, !.pc = "idle"]

\* what analyzeOSINTResult can do: its request returns a text, its request
\* is rejected, or the construction of the client, which precedes the try
\* block, throws
SummaryOutcomes == {"text", "requestFails", "clientFails"}

Placeholder == "Could not generate AI analysis for this data."

\* analyzeOSINTResult: the text returned, or the error it rejects with
analyzeOSINTResult(outcome) ==
    CASE outcome = "text" -> [thrown |-> FALSE, text |-> "summary"]
      [] outcome = "requestFails" -> [thrown |-> FALSE, text |-> Placeholder]
      [] OTHER -> [thrown |-> TRUE, text |-> ""]

\* handleLookup up to await fetch: the form of the tool screen is submitted
LookupStart(d) ==
    /\ External
    /\ Screen(d) = "tool"
    /\ ~DashLoading(d)
    /\ dash' = [dash EXCEPT ![d] = [@ EXCEPT !.loading = TRUE,
                                             !.result = NoResult,
                                             !.aiAnalysis = "",
                                             !.error = "",
                                             !.pc = "fetch"]]
    /\ UNCHANGED <<rec, authUser, notified, stored, nextTok, user, profile,
                   loading, sessionConflict, permissionError, inflight, subs>>
    /\ UNCHANGED <<resumed, signedOut, accepted>>

\* handleLookup from await fetch to await analyzeOSINTResult
LookupFetched(d, outcome) ==
    /\ Internal
    /\ dash[d].pc = "fetch"
    /\ dash' = [dash EXCEPT ![d] =
          IF outcome \in FetchSuccesses
          THEN [@ EXCEPT !.result = IF outcome = "ok" THEN "data" ELSE "text",
                         !.pc = "summarize"]
          ELSE lookupFinally(lookupCatch(@))]
    /\ UNCHANGED <<rec, authUser, notified, stored, nextTok, user, profile,
                   loading, sessionConflict, permissionError, inflight, subs>>
    /\ UNCHANGED <<resumed, signedOut, accepted>>

\* handleLookup from await analyzeOSINTResult to its end
LookupSummarized(d, outcome) ==
    /\ Internal
    /\ dash[d].pc = "summarize"
    /\ LET r == analyzeOSINTResult(outcome) IN
       dash' = [dash EXCEPT ![d] =
          IF r.thrown
          THEN lookupFinally(lookupCatch(@))
          ELSE lookupFinally([@ EXCEPT !.aiAnalysis = r.text])]
    /\ UNCHANGED <<rec, authUser, notified, stored, nextTok, user, profile,
                   loading, sessionConflict, permissionError, inflight, subs>>
    /\ UNCHANGED <<resumed, signedOut, accepted>>

\* a role toggle that does not look at the acting profile
ToggleAdmin_anyAdmin(d, u, viewIsAdmin) ==
    /\ External
    /\ Screen(d) = "admin"
    /\ IF rec[u].exists /\ ~rec[u].isOwner
       THEN /\ Room(u)
            /\ rec' = [rec EXCEPT ![u].isAdmin = ~viewIsAdmin]
            /\ subs' = Notify(subs, u, [rec[u] EXCEPT !.isAdmin = ~viewIsAdmin])
       ELSE UNCHANGED <<rec, subs>>
    /\ UNCHANGED <<authUser, notified, stored, nextTok, user, profile, loading,
                   sessionConflict, permissionError, inflight>>
    /\ UNCHANGED <<resumed, signedOut, accepted>>
    /\ DashboardFollows

\* handleToggleAdmin of the AdminPanel shown on device d, on the list entry
\* of users/{u}; updateDoc writes only to a document that exists
ToggleAdmin(d, u, viewIsAdmin) ==
    /\ External
    /\ Screen(d) = "admin"
    /\ IF profile[d].isOwner /\ rec[u].exists /\ ~rec[u].isOwner
       THEN /\ Room(u)
            /\ rec' = [rec EXCEPT ![u].isAdmin = ~viewIsAdmin]
            /\ subs' = Notify(subs, u, [rec[u] EXCEPT !.isAdmin = ~viewIsAdmin])
       ELSE UNCHANGED <<rec, subs>>
    /\ UNCHANGED <<authUser, notified, stored, nextTok, user, profile, loading,
                   sessionConflict, permissionError, inflight>>
    /\ UNCHANGED <<resumed, signedOut, accepted>>
    /\ DashboardFollows

\* handleRevokeDevice of the AdminPanel shown on device d: the list of the
\* rendered profile without sid is written to the record of that profile
RevokeDevice(d, sid) ==
    /\ AdminOp
    /\ Screen(d) = "admin"
    /\ \E j \in 1..Len(profile[d].authorizedSessions) :
          profile[d].authorizedSessions[j] = sid
    /\ profile[d].uid # NoUser
    /\ LET u == profile[d].uid
           doc == [rec[u] EXCEPT !.authorizedSessions =
                      SelectSeq(profile[d].authorizedSessions,
                                LAMBDA s : s # sid)] IN
       IF rec[u].exists
       THEN /\ Room(u)
            /\ rec' = [rec EXCEPT ![u] = doc]
            /\ subs' = Notify(subs, u, doc)
       ELSE UNCHANGED <<rec, subs>>
    /\ UNCHANGED <<authUser, notified, stored, nextTok, user, profile, loading,
                   sessionConflict, permissionError, inflight>>
    /\ UNCHANGED <<resumed, signedOut, accepted>>
    /\ DashboardFollows

\* a deletion that does not look at isOwner
DeleteUser_anyUser(u) ==
    /\ AdminOp
    /\ rec[u].exists
    /\ Room(u)
    /\ rec' = [rec EXCEPT ![u] = NoDoc]
    /\ subs' = Notify(subs, u, NoDoc)
    /\ UNCHANGED <<authUser, notified, stored, nextTok, user, profile, loading,
                   sessionConflict, permissionError, inflight>>
    /\ resumed' = [x \in Devices |-> IF user[x] = u THEN FALSE ELSE resumed[x]]
    /\ accepted' = [accepted EXCEPT ![u] = NoSid]
    /\ UNCHANGED signedOut
    /\ DashboardFollows

\* the administrator's handleDeleteUser on the list entry of users/{u},
\* confirmed in the dialog
DeleteUser(u) ==
    /\ AdminOp
    /\ rec[u].exists
    /\ IF rec[u].isOwner
       THEN /\ UNCHANGED <<rec, subs>>
            /\ UNCHANGED <<resumed, accepted>>
       ELSE /\ Room(u)
            /\ rec' = [rec EXCEPT ![u] = NoDoc]
            /\ subs' = Notify(subs, u, NoDoc)
            /\ resumed' = [x \in Devices |-> IF user[x] = u THEN FALSE ELSE resumed[x]]
            /\ accepted' = [accepted EXCEPT ![u] = NoSid]
    /\ UNCHANGED <<authUser, notified, stored, nextTok, user, profile, loading,
                   sessionConflict, permissionError, inflight>>
    /\ UNCHANGED signedOut
    /\ DashboardFollows

\* the steps of the devices, the provider and the repository
EngineNext ==
    \/ \E d \in Devices : \E u \in UidsOf(d) : AuthSubject(d, u)
    \/ \E d \in Devices : AuthNoSubject(d)
    \/ \E d \in Devices, i \in 1..MaxHandles : GetDocOk(d, i)
    \/ \E d \in Devices, i \in 1..MaxHandles, c \in ErrCodes : GetDocFail(d, i, c)
    \/ \E d \in Devices, i \in 1..MaxHandles : SetDocOk(d, i)
    \/ \E d \in Devices, i \in 1..MaxHandles, c \in ErrCodes : SetDocFail(d, i, c)
    \/ \E d \in Devices, k \in 1..MaxHandles : Deliver(d, k)
    \/ \E d \in Devices, k \in 1..MaxHandles, c \in ErrCodes : ListenerError(d, k, c)
    \/ \E d \in Devices : Resume(d)
    \/ \E d \in Devices : Logout(d)

\* the steps of the administrator
AdminNext == \E u \in Uids, b \in BOOLEAN : ToggleApproval(u, b)

Next == EngineNext \/ AdminNext

Spec == Init /\ [][Next]_vars

\* the system while no administrator changes any record
SpecNoAdmin == Init /\ [][EngineNext]_vars

\* an awaited repository call returns, or a queued profile event is delivered
Settles ==
    \E d \in Devices, i \in 1..MaxHandles :
        GetDocOk(d, i) \/ SetDocOk(d, i) \/ Deliver(d, i)

\* the identity events of the provider and the steps of their handling
IdentityNext ==
    \/ \E d \in Devices : \E u \in UidsOf(d) : AuthSubject(d, u)
    \/ \E d \in Devices : AuthNoSubject(d)
    \/ \E d \in Devices, i \in 1..MaxHandles : GetDocOk(d, i)
    \/ \E d \in Devices, i \in 1..MaxHandles, c \in ErrCodes : GetDocFail(d, i, c)
    \/ \E d \in Devices, i \in 1..MaxHandles : SetDocOk(d, i)
    \/ \E d \in Devices, i \in 1..MaxHandles, c \in ErrCodes : SetDocFail(d, i, c)
    \/ \E d \in Devices, k \in 1..MaxHandles : Deliver(d, k)

\* the handling of identity events when every awaited call that can return
\* does return and every queued profile event is delivered
SpecSettles == Init /\ [][IdentityNext]_vars /\ WF_vars(Settles)

\* the steps of a lookup on the user dashboard
LookupNext ==
    \/ \E d \in Devices : LookupStart(d)
    \/ \E d \in Devices, o \in FetchOutcomes : LookupFetched(d, o)
    \/ \E d \in Devices, o \in SummaryOutcomes : LookupSummarized(d, o)

\* the system with the lookups of approved users
SpecLookup == Init /\ [][Next \/ LookupNext]_vars

\* the other steps of the administrative panel
PanelNext ==
    \/ \E d \in Devices, u \in Uids, b \in BOOLEAN : ToggleAdmin(d, u, b)
    \/ \E d \in Devices, s \in 1..LegacySid : RevokeDevice(d, s)
    \/ \E u \in Uids : DeleteUser(u)

\* the steps of the re-authorization handshake
ReauthNext ==
    \/ \E d \in Devices : RequestAuthorization(d)
    \/ \E u \in Uids, p \in 0..MaxTok : AuthorizeSession(u, p)

\* the system with the re-authorization handshake
SpecReauth == Init /\ [][EngineNext \/ ReauthNext]_vars

\* the steps of the devices that lead to a write of a record: no repository
\* call fails and nobody signs out
ClaimNext ==
    \/ \E d \in Devices : \E u \in UidsOf(d) : AuthSubject(d, u)
    \/ \E d \in Devices, i \in 1..MaxHandles : GetDocOk(d, i)
    \/ \E d \in Devices, i \in 1..MaxHandles : SetDocOk(d, i)
    \/ \E d \in Devices, k \in 1..MaxHandles : Deliver(d, k)
    \/ \E d \in Devices : Resume(d)

\* every operation of this program that writes a record, and the steps that
\* lead to them
SpecWrites ==
    Init /\ [][ClaimNext \/ AdminNext \/ PanelNext \/ ReauthNext]_vars

----------------------------------------------------------------------------
(* States of the reconciliation engine, as the spec names them *)

Active(d) ==
    /\ user[d] # NoUser
    /\ profile[d].exists
    /\ ~sessionConflict[d]
    /\ permissionError[d] = NoError

Conflicted(d) == sessionConflict[d]

\* the device has a live listener on the record of identity u
Listens(d, u) == \E k \in 1..Len(subs[d]) : subs[d][k].uid = u

\* every live listener of the device has received all that was sent to it
AllDelivered(d) == \A k \in 1..Len(subs[d]) : subs[d][k].queue = <<>>

\* no repository write in flight, every listener up to date
Quiescent ==
    /\ \A d \in Devices : \A i \in 1..Len(inflight[d]) : inflight[d][i].pc = "getDoc"
    /\ \A d \in Devices : AllDelivered(d)

----------------------------------------------------------------------------
C2_AtMostOneActive ==
    Quiescent =>
        \A a \in Devices, b \in Devices :
            (/\ a # b /\ stored[a] # stored[b]
             /\ Active(a) /\ Listens(a, user[a])
             /\ Active(b) /\ Listens(b, user[b]))
               => user[a] # user[b]

\* C3: a Resume of device a writes a's token to the record of its identity
\* and sends that value to every live listener of the record; the delivery of
\* that event to another device b sets b's conflict flag, and its delivery to
\* a's listener on that record clears a's conflict flag and renders the record.
C3_ResumeMovesAuthority ==
    [][ /\ \A a \in Devices :
              (Resume(a) /\ user[a] # NoUser) =>
                 /\ rec'[user[a]] = [rec[user[a]] EXCEPT !.lastSessionId = stored'[a]]
                 /\ \A d \in Devices : \A k \in 1..Len(subs[d]) :
                       subs[d][k].uid = user[a] =>
                          subs'[d][k].queue = Append(subs[d][k].queue, rec'[user[a]])
        /\ \A b \in Devices : \A k \in 1..Len(subs[b]) :
              (/\ Deliver(b, k)
               /\ Head(subs[b][k].queue).exists
               /\ \E a \in Devices \ {b} :
                     /\ resumed[a]
                     /\ user[a] = subs[b][k].uid
                     /\ stored[a] = Head(subs[b][k].queue).lastSessionId)
              => sessionConflict'[b]
        /\ \A a \in Devices : \A k \in 1..Len(subs[a]) :
              (/\ Deliver(a, k)
               /\ Head(subs[a][k].queue).exists
               /\ resumed[a]
               /\ subs[a][k].uid = user[a]
               /\ Head(subs[a][k].queue).lastSessionId = stored[a])
              => /\ ~sessionConflict'[a]
                 /\ profile'[a] = Head(subs[a][k].queue)
      ]_vars

\* C4: once a device's Resume is the latest claim on its record and every
\* notification sent to the device's listeners has been delivered, the
\* device is Active, and it stays Active for as long as that is the case.
C4_ResumeConverges ==
    \A a \in Devices :
        (resumed[a] /\ Listens(a, user[a]) /\ AllDelivered(a)) => Active(a)

\* C5: once the device has handled a report of no subject, no profile-change
\* event and no listener error changes its user, profile, conflict flag or error.
C5_SilentAfterSignOut ==
    [][ \A d \in Devices :
          (notified[d] /\ authUser[d] = NoUser) =>
             \A k \in 1..Len(subs[d]) :
                (Deliver(d, k) \/ \E c \in ErrCodes : ListenerError(d, k, c)) =>
                   /\ user'[d] = user[d]
                   /\ profile'[d] = profile[d]
                   /\ sessionConflict'[d] = sessionConflict[d]
                   /\ permissionError'[d] = permissionError[d]
      ]_vars

\* C6: a device never holds more than one live profile listener, and an
\* event of a listener on the record of an identity that is not the
\* device's current one never changes the device's profile or conflict flag.
C6_OneListenerPerDevice ==
    /\ [](\A d \in Devices : Len(subs[d]) <= 1)
    /\ [][ \A d \in Devices : \A k \in 1..Len(subs[d]) :
              (Deliver(d, k) /\ authUser[d] # NoUser /\ subs[d][k].uid # authUser[d]) =>
                 /\ profile'[d] = profile[d]
                 /\ sessionConflict'[d] = sessionConflict[d]
          ]_vars

\* the identities that have no record before any device starts
NewUids == {u \in Uids : u # AdminDoc.uid}

\* C7: a bootstrap that found no record writes isApproved = false, isAdmin =
\* false and the device's token, and renders that profile; while no
\* administrator changes a record, a device signed in to an identity that had
\* no record is shown neither the tool screen nor the administrative screen.
C7_NewIdentityPending ==
    /\ [][ \A d \in Devices : \A i \in 1..Len(inflight[d]) :
              (SetDocOk(d, i) /\ inflight[d][i].pc = "setDocNew") =>
                 /\ rec'[inflight[d][i].uid] =
                       [exists |-> TRUE, uid |-> inflight[d][i].uid,
                        isAdmin |-> FALSE, isOwner |-> FALSE,
                        isApproved |-> FALSE,
                        lastSessionId |-> inflight[d][i].sid,
                        pendingSessionId |-> NoSid,
                        pendingSessionMetadata |-> NoMeta,
                        authorizedSessions |-> NoSessions]
                 /\ profile'[d] = rec'[inflight[d][i].uid]
          ]_vars
    /\ [](\A d \in Devices :
             user[d] \in NewUids => Screen(d) \notin {"tool", "admin"})

\* C8: on an existing record the bootstrap renders the record it read with
\* lastSessionId replaced by the device's token, and its write changes
\* lastSessionId of that record to the device's token and nothing else, in
\* the repository and in the rendered profile.
C8_ClaimWritesOnlySessionId ==
    [][ \A d \in Devices : \A i \in 1..Len(inflight[d]) :
          LET inv == inflight[d][i] IN
          /\ (GetDocOk(d, i) /\ rec[inv.uid].exists) =>
                 /\ profile'[d] = [rec[inv.uid] EXCEPT !.lastSessionId = inv.sid]
                 /\ rec' = rec
          /\ (SetDocOk(d, i) /\ inv.pc = "setDocMerge") =>
                 /\ rec'[inv.uid].lastSessionId = inv.sid
                 /\ rec'[inv.uid].uid = rec[inv.uid].uid
                 /\ rec'[inv.uid].isAdmin = rec[inv.uid].isAdmin
                 /\ rec'[inv.uid].isApproved = rec[inv.uid].isApproved
                 /\ \A u \in Uids \ {inv.uid} : rec'[u] = rec[u]
                 /\ profile'[d] = profile[d]
      ]_vars

\* a device has claimed the administrator's record and has not been notified yet
C8_Witness ==
    \E d \in Devices :
        /\ user[d] = AdminDoc.uid
        /\ stored[d] # NoSid
        /\ rec[user[d]] = [AdminDoc EXCEPT !.lastSessionId = stored[d]]
        /\ profile[d] = rec[user[d]]
        /\ Len(subs[d]) = 1 /\ Len(subs[d][1].queue) = 1

C10_BootstrapFailureIsTerminal ==
    [][ \A d \in Devices : \A i \in 1..Len(inflight[d]) : \A c \in ErrCodes :
          (GetDocFail(d, i, c) \/ SetDocFail(d, i, c)) =>
             /\ permissionError'[d] # NoError
             /\ Screen(d)' = "error"
             /\ subs' = subs
             /\ user' = user
             /\ rec' = rec
             /\ Len(inflight'[d]) = Len(inflight[d]) - 1
             /\ (Len(inflight[d]) = 1 /\ user[d] = NoUser) =>
                    (inflight'[d] = <<>> /\ user'[d] = NoUser /\ ~Listens(d, inflight[d][i].uid)')
      ]_vars

\* a first bootstrap failed: error shown, no user, no listener, nothing pending
C10_Witness ==
    \E d \in Devices :
        /\ permissionError[d] \in {"Access Denied", "System Error"}
        /\ Screen(d) = "error"
        /\ authUser[d] # NoUser
        /\ user[d] = NoUser
        /\ subs[d] = <<>>
        /\ inflight[d] = <<>>

\* the View Router of the design: error, conflict, loading, unauthenticated,
\* pending approval, administrative, tool, in that order
C11_Router(d) ==
    IF permissionError[d] # NoError THEN "error"
    ELSE IF sessionConflict[d] THEN "conflict"
    ELSE IF user[d] # NoUser /\ ~profile[d].exists THEN "loading"
    ELSE IF user[d] = NoUser THEN "unauth"
    ELSE IF ~profile[d].isApproved THEN "pending"
    ELSE IF profile[d].isAdmin THEN "admin"
    ELSE "tool"

\* C11: once the bootstrap's loading indicator is off, the screen shown is
\* the one the fixed precedence selects from the error, the conflict flag,
\* the user, the profile and its isApproved and isAdmin flags: error, else
\* conflict, else loading, else unauthenticated, else pending approval, else
\* administrative, else tool.
C11_ScreenByPrecedence ==
    \A d \in Devices : ~loading[d] => Screen(d) = C11_Router(d)

\* C12: a device whose rendered profile has isApproved = false is shown
\* neither the tool screen nor the administrative screen.
C12_UnapprovedSeesNoTools ==
    \A d \in Devices :
        (profile[d].exists /\ ~profile[d].isApproved) =>
            Screen(d) \notin {"tool", "admin"}

\* C13 as stated: whenever a device's conflict flag is set it is shown the
\* conflict-resolution screen, whose only actions are Resume and Sign out.
C13_ConflictScreenWhileFlag ==
    \A d \in Devices :
        sessionConflict[d] =>
            /\ Screen(d) = "conflict"
            /\ Offers(d) = {"Resume", "SignOut"}

\* C13 amended: a device whose conflict flag is set is never shown the tool
\* or the administrative screen; unless the loading indicator or the error
\* display is shown instead, it is shown the conflict-resolution screen,
\* which offers Resume and Sign out and nothing else; Resume is offered on
\* that screen only and writes the device's token as lastSessionId of the
\* user's record; Sign out there removes the stored token.
C13_ConflictBlocksTools ==
    /\ [](\A d \in Devices :
             sessionConflict[d] =>
                /\ Screen(d) \notin {"tool", "admin", "pending", "unauth"}
                /\ (~loading[d] /\ permissionError[d] = NoError) =>
                      /\ Screen(d) = "conflict"
                      /\ Offers(d) = {"Resume", "SignOut"})
    /\ [][ \A d \in Devices :
              /\ Resume(d) =>
                    /\ sessionConflict[d] /\ "Resume" \in Offers(d)
                    /\ stored'[d] # NoSid
                    /\ user[d] # NoUser =>
                          rec'[user[d]] =
                             [rec[user[d]] EXCEPT !.lastSessionId = stored'[d]]
              /\ (Logout(d) /\ sessionConflict[d]) =>
                    /\ "SignOut" \in Offers(d)
                    /\ stored'[d] = NoSid
          ]_vars

\* a Conflicted device whose profile would otherwise open the tools or the
\* administrative screen is shown the conflict-resolution screen
C13_Witness ==
    \E d \in Devices :
        /\ sessionConflict[d]
        /\ Screen(d) = "conflict"
        /\ user[d] # NoUser
        /\ profile[d].exists
        /\ profile[d].isAdmin \/ profile[d].isApproved

\* the listener that the device's unsubscribeProfile handle refers to is live
HoldsHandle(d) == \E k \in 1..Len(subs[d]) : subs[d][k].cur

\* C14: when a device handles a report of no subject (sent by the provider
\* on its own or after signOut), its user and its profile are unset, its
\* conflict flag is false and the listener its handle refers to is closed;
\* a device that had that one live listener has none afterwards, whether it
\* was Active, Conflicted or still waiting for the listener's first event.
C14_NoSubjectTearsDown ==
    [][ \A d \in Devices :
          (AuthNoSubject(d) \/ (Logout(d) /\ authUser[d] # NoUser)) =>
             /\ user'[d] = NoUser
             /\ profile'[d] = NoDoc
             /\ ~sessionConflict'[d]
             /\ ~HoldsHandle(d)'
             /\ HoldsHandle(d) => Len(subs'[d]) = Len(subs[d]) - 1
             /\ (Len(subs[d]) = 1 /\ HoldsHandle(d)) => subs'[d] = <<>>
             /\ rec' = rec
      ]_vars

\* a device that claimed a record, and so had opened its listener, has
\* handled a report of no subject: nothing rendered, no listener, token kept
C14_Witness ==
    \E d \in Devices : \E u \in Uids :
        /\ notified[d] /\ authUser[d] = NoUser
        /\ stored[d] # NoSid /\ rec[u].lastSessionId = stored[d]
        /\ user[d] = NoUser /\ profile[d] = NoDoc /\ ~sessionConflict[d]
        /\ subs[d] = <<>> /\ inflight[d] = <<>>

\* device d calls getLocalSessionId in this step
CallsGetLocalSessionId(d) ==
    \/ \E u \in UidsOf(d) : AuthSubject(d, u)
    \/ Resume(d)

\* the token the call of this step returned to its caller
ReturnedSid(d) ==
    IF Resume(d) THEN rec'[user[d]].lastSessionId
    ELSE inflight'[d][Len(inflight'[d])].sid

\* C15: a device stores at most one token, every token in use was generated
\* before the next one; a call of getLocalSessionId while a token is stored
\* returns that token and leaves it stored; a call while none is stored
\* (at the start or after handleLogout removed it) stores and returns a
\* newly generated token, different from every token generated before, and
\* so from the one the device held before the removal.
C15_TokenStore ==
    /\ [](\A d \in Devices : stored[d] \in 0..(nextTok - 1))
    /\ [][ /\ nextTok' >= nextTok
           /\ \A d \in Devices :
                 /\ (Logout(d) /\ stored[d] # NoSid) =>
                        (stored'[d] = NoSid /\ stored[d] < nextTok')
                 /\ CallsGetLocalSessionId(d) =>
                       /\ stored'[d] # NoSid
                       /\ (Resume(d) => user[d] # NoUser) => ReturnedSid(d) = stored'[d]
                       /\ stored[d] # NoSid =>
                              (stored'[d] = stored[d] /\ nextTok' = nextTok)
                       /\ stored[d] = NoSid =>
                              /\ stored'[d] >= nextTok
                              /\ nextTok' > stored'[d]
                              /\ \A e \in Devices : stored'[d] # stored[e]
          ]_vars

\* a device that signed out explicitly (its token was removed) has
\* bootstrapped the same record again with a newly generated token
C15_Witness ==
    \E d \in Devices :
        /\ stored[d] > 1
        /\ user[d] # NoUser
        /\ rec[user[d]].lastSessionId = stored[d]
        /\ \A e \in Devices \ {d} : stored[e] = NoSid /\ ~notified[e]

\* C16: a stored token is removed by handleLogout only and is never replaced
\* by another one; handling a report of no subject, a failed bootstrap or a
\* profile event (one that sets the conflict flag included) leaves the
\* store as it is, and so does a Resume of a device that has a stored token.
C16_OnlySignOutClearsToken ==
    [][ \A d \in Devices :
          /\ stored[d] # NoSid =>
                /\ stored'[d] \in {stored[d], NoSid}
                /\ stored'[d] = NoSid => Logout(d)
          /\ AuthNoSubject(d) => stored' = stored
          /\ \A i \in 1..Len(inflight[d]) : \A c \in ErrCodes :
                (GetDocFail(d, i, c) \/ SetDocFail(d, i, c)) => stored' = stored
          /\ \A k \in 1..Len(subs[d]) :
                (Deliver(d, k) \/ \E c \in ErrCodes : ListenerError(d, k, c)) =>
                    stored' = stored
          /\ (Resume(d) /\ stored[d] # NoSid) => stored' = stored
      ]_vars

\* a signed-in device was told by the provider that there is no subject:
\* nothing is rendered, its listener is closed and its token is still stored
C16_Witness ==
    \E d \in Devices :
        /\ notified[d] /\ authUser[d] = NoUser
        /\ stored[d] # NoSid
        /\ \E u \in Uids : rec[u].exists /\ rec[u].lastSessionId = stored[d]
        /\ user[d] = NoUser /\ ~loading[d] /\ permissionError[d] = NoError
        /\ subs[d] = <<>> /\ inflight[d] = <<>>

\* C17: when handleLogout has run the device has no stored token; the token
\* it removed is never stored on the device again, so a bootstrap that
\* starts on the device afterwards takes a token different from it, and the
\* claim that bootstrap writes carries the token it took.
C17_FreshTokenAfterSignOut ==
    /\ [](\A d \in Devices :
             signedOut[d] # NoSid => stored[d] # signedOut[d])
    /\ [][ \A d \in Devices :
              /\ Logout(d) => stored'[d] = NoSid
              /\ \A u \in UidsOf(d) :
                    (AuthSubject(d, u) /\ signedOut[d] # NoSid) =>
                       /\ inflight'[d][Len(inflight'[d])].sid = stored'[d]
                       /\ inflight'[d][Len(inflight'[d])].sid # signedOut[d]
              /\ \A i \in 1..Len(inflight[d]) :
                    SetDocOk(d, i) =>
                       rec'[inflight[d][i].uid].lastSessionId = inflight[d][i].sid
          ]_vars

\* a device signed out explicitly, signed in again and claimed the record
\* with a token that is not the one the sign-out removed
C17_Witness ==
    \E d \in Devices :
        /\ signedOut[d] # NoSid
        /\ user[d] # NoUser /\ authUser[d] = user[d]
        /\ stored[d] \notin {NoSid, signedOut[d]}
        /\ rec[user[d]].lastSessionId = stored[d]
        /\ Len(subs[d]) = 1 /\ subs[d][1].sid = stored[d]

\* the listeners the device had before the step are all still open after it
KeepsListeners(d) ==
    /\ Len(subs'[d]) >= Len(subs[d])
    /\ \A j \in 1..Len(subs[d]) :
          /\ subs'[d][j].uid = subs[d][j].uid
          /\ subs'[d][j].sid = subs[d][j].sid

\* C18: a listener of a device stops being live only in a step in which the
\* device handles a report of no subject or the repository reports an error
\* on a listener of the device; the delivery of an event (one that sets or
\* clears the conflict flag included), a Resume and every step of another
\* device or of the administrator leave all listeners of the device open.
C18_SubscriptionStaysLive ==
    [][ \A d \in Devices :
          /\ ~KeepsListeners(d) =>
                \/ AuthNoSubject(d)
                \/ Logout(d) /\ authUser[d] # NoUser
                \/ \E k \in 1..Len(subs[d]) : \E c \in ErrCodes : ListenerError(d, k, c)
          /\ \A k \in 1..Len(subs[d]) :
                Deliver(d, k) =>
                   /\ KeepsListeners(d)
                   /\ Len(subs'[d]) = Len(subs[d])
                   /\ subs'[d][k].queue = Tail(subs[d][k].queue)
          /\ Resume(d) => KeepsListeners(d) /\ Len(subs'[d]) = Len(subs[d])
      ]_vars

\* a device was made Conflicted by an event of its listener, and the
\* listener is still open with nothing left to deliver
C18_Witness ==
    \E d \in Devices :
        /\ sessionConflict[d]
        /\ Len(subs[d]) = 1 /\ HoldsHandle(d)
        /\ subs[d][1].uid = user[d] /\ subs[d][1].queue = <<>>
        /\ profile[d].exists /\ profile[d].lastSessionId # subs[d][1].sid

C20_AcceptanceMovesAuthority ==
    /\ [][ \A u \in Uids : \A p \in 0..MaxTok :
              AuthorizeSession(u, p) =>
                 /\ p = NoSid => (rec' = rec /\ subs' = subs)
                 /\ p # NoSid =>
                       /\ rec'[u] = [rec[u] EXCEPT !.lastSessionId = p,
                                                   !.pendingSessionId = NoSid,
                                                   !.pendingSessionMetadata = NoMeta]
                       /\ \A v \in Uids \ {u} : rec'[v] = rec[v]
                       /\ \A d \in Devices : \A k \in 1..Len(subs[d]) :
                             subs[d][k].uid = u =>
                                subs'[d][k].queue = Append(subs[d][k].queue, rec'[u])
          ]_vars
    /\ [](\A u \in Uids : \A d \in Devices :
             (/\ accepted[u] # NoSid
              /\ user[d] = u /\ Listens(d, u) /\ AllDelivered(d)
              /\ permissionError[d] = NoError)
             => IF stored[d] = accepted[u] THEN Active(d) ELSE Conflicted(d))

\* C21: a bootstrap whose getDoc or setDoc fails stores a diagnostic, and the
\* diagnostic stored for a permission-denied failure is stored for no failure
\* with another code: the error state tells the two outcomes apart.
C21_DeniedIsDistinct ==
    [][ \A d \in Devices : \A i \in 1..Len(inflight[d]) : \A c \in ErrCodes :
          (GetDocFail(d, i, c) \/ SetDocFail(d, i, c)) =>
             /\ permissionError'[d] # NoError
             /\ (permissionError'[d] = bootstrapErrorText("permission-denied"))
                   <=> (c = "permission-denied")
             /\ \A other \in ErrCodes \ {"permission-denied"} :
                   (permissionError'[d] = bootstrapErrorText(other))
                      => (c # "permission-denied")
      ]_vars

\* a bootstrap was denied by the repository and the device shows that diagnostic
C21_Witness ==
    \E d \in Devices :
        /\ permissionError[d] = "Access Denied"
        /\ permissionError[d] # bootstrapErrorText("unavailable")
        /\ ~loading[d]
        /\ inflight[d] = <<>>

\* C22: when the summarization of a fetched lookup result fails, in any of
\* the ways it can fail, the handler ends with the result still set, the
\* placeholder as the summary and no error.
C22_SummaryFailureAbsorbed ==
    [][ \A d \in Devices : \A o \in SummaryOutcomes \ {"text"} :
          LookupSummarized(d, o) =>
             /\ dash'[d].result = dash[d].result
             /\ dash'[d].result # NoResult
             /\ dash'[d].aiAnalysis = Placeholder
             /\ dash'[d].error = ""
      ]_vars

\* C23: no step changes isOwner of a record that exists before and after
\* it, and no step removes a record whose isOwner is true.
C23_OwnerIsImmutable ==
    [][ \A u \in Uids :
          rec[u].exists =>
             /\ rec'[u].exists => rec'[u].isOwner = rec[u].isOwner
             /\ rec[u].isOwner => rec'[u].exists
      ]_vars

\* the owner's record after a claim of a device and a device revocation
C23_Witness ==
    \E u \in Uids :
        /\ rec[u].exists /\ rec[u].isOwner
        /\ rec[u].lastSessionId # NoSid
        /\ rec[u].authorizedSessions = NoSessions

\* C29: a role toggle changes the records only when the profile of the
\* acting panel has isOwner and the target record has not, and then it
\* changes isAdmin of the target and nothing else; every other role toggle
\* writes nothing and sends no event.
C29_RoleToggleNeedsOwner ==
    [][ \A d \in Devices : \A u \in Uids : \A b \in BOOLEAN :
          ToggleAdmin(d, u, b) =>
             /\ rec' # rec =>
                   /\ profile[d].isOwner
                   /\ ~rec[u].isOwner
                   /\ rec' = [rec EXCEPT ![u].isAdmin = ~b]
             /\ ~(profile[d].isOwner /\ ~rec[u].isOwner) =>
                   (rec' = rec /\ subs' = subs)
      ]_vars

\* an administrator who is not the owner is shown the panel, after the
\* owner's toggle made that account an administrator
C29_Witness ==
    \E d \in Devices :
        /\ Screen(d) = "admin"
        /\ user[d] # NoUser
        /\ ~profile[d].isOwner
        /\ profile[d].uid = user[d]
        /\ rec[user[d]].isAdmin
        /\ \E u \in Uids : rec[u].exists /\ rec[u].isOwner

\* C30: the delivery of a profile-change event that reports a missing record
\* changes neither the rendered profile nor the conflict flag of the device.
C30_MissingRecordEventIgnored ==
    [][ \A d \in Devices : \A k \in 1..Len(subs[d]) :
          (Deliver(d, k) /\ ~Head(subs[d][k].queue).exists) =>
             /\ profile'[d] = profile[d]
             /\ sessionConflict'[d] = sessionConflict[d]
             /\ user'[d] = user[d]
      ]_vars

\* the record of the device's identity was deleted, the device has received
\* the event and still renders the profile
C30_Witness ==
    \E d \in Devices :
        /\ user[d] # NoUser
        /\ ~rec[user[d]].exists
        /\ Listens(d, user[d])
        /\ AllDelivered(d)
        /\ profile[d].exists
        /\ profile[d].uid = user[d]

\* C24: a write of the reconciliation engine (the write that ends a
\* bootstrap, or Resume) to a record that exists leaves isApproved and
\* isAdmin of that record as they were.
C24_EngineKeepsApproval ==
    [][ /\ \A d \in Devices : \A i \in 1..Len(inflight[d]) :
              (SetDocOk(d, i) /\ rec[inflight[d][i].uid].exists) =>
                 /\ rec'[inflight[d][i].uid].isApproved =
                       rec[inflight[d][i].uid].isApproved
                 /\ rec'[inflight[d][i].uid].isAdmin =
                       rec[inflight[d][i].uid].isAdmin
        /\ \A d \in Devices :
              (Resume(d) /\ user[d] # NoUser /\ rec[user[d]].exists) =>
                 /\ rec'[user[d]].isApproved = rec[user[d]].isApproved
                 /\ rec'[user[d]].isAdmin = rec[user[d]].isAdmin
      ]_vars

\* C25: once the provider has reported no subject to a device and no
\* invocation of the callback is suspended on that device, the device is
\* unauthenticated: no user, no profile, no live profile listener.
C25_NoSubjectWinsOverBootstrap ==
    \A d \in Devices :
        (notified[d] /\ authUser[d] = NoUser /\ inflight[d] = <<>>) =>
            /\ user[d] = NoUser
            /\ ~profile[d].exists
            /\ subs[d] = <<>>

\* the controls of device d that sign out: handleLogout, and the provider's
\* report of no subject
SignsOut(d) == Logout(d) \/ AuthNoSubject(d)

\* C26: a sign-out of a device, explicit or provider-initiated, leaves every
\* record as it was (lastSessionId keeps the token of the device that signed
\* out when that was the authority), sends no event to any listener, and
\* leaves the state of every other device, Active or Conflicted, as it was.
C26_SignOutWritesNothing ==
    [][ \A d \in Devices :
          SignsOut(d) =>
             /\ rec' = rec
             /\ \A u \in Uids :
                   rec[u].lastSessionId = stored[d] =>
                      rec'[u].lastSessionId = stored[d]
             /\ \A x \in Devices \ {d} :
                   /\ subs'[x] = subs[x]
                   /\ user'[x] = user[x]
                   /\ profile'[x] = profile[x]
                   /\ Active(x)' = Active(x)
                   /\ Conflicted(x)' = Conflicted(x)
             /\ \A k \in 1..Len(subs'[d]) :
                   \E j \in 1..Len(subs[d]) : subs'[d][k] = subs[d][j]
      ]_vars

\* device d signed out while it was the authority of its identity, and the
\* other device of that identity is still Conflicted
C26_Witness ==
    \E d \in Devices, x \in Devices, u \in Uids :
        /\ d # x
        /\ signedOut[d] # NoSid
        /\ authUser[d] = NoUser /\ user[d] = NoUser
        /\ rec[u].lastSessionId = signedOut[d]
        /\ user[x] = u
        /\ Conflicted(x)
        /\ AllDelivered(x)

\* C27: an approval toggle changes isApproved of the target record and
\* nothing else, lastSessionId included, and by itself changes no device's
\* state; the event it sends to a listener is the record as written, and for
\* a device that has received every earlier event the conflict flag that the
\* delivery of that event sets is the flag the device already has, so the
\* device stays Active or Conflicted as it was.
C27_ApprovalToggleKeepsSessions ==
    [][ \A u \in Uids : \A b \in BOOLEAN :
          ToggleApproval(u, b) =>
             /\ rec' = [rec EXCEPT ![u].isApproved = ~b]
             /\ \A d \in Devices :
                   /\ Active(d)' = Active(d)
                   /\ Conflicted(d)' = Conflicted(d)
                   /\ \A k \in 1..Len(subs[d]) :
                         subs[d][k].uid = u =>
                            /\ subs'[d][k].queue =
                                  Append(subs[d][k].queue, rec'[u])
                            /\ AllDelivered(d) =>
                                  conflictOf(rec'[u], subs[d][k].sid)
                                     = sessionConflict[d]
      ]_vars

\* C28: the tools listener of a device's dashboard is live only while the
\* dashboard is mounted with a profile that has isApproved; a step after
\* which the rendered profile has no isApproved leaves no tools listener
\* live, and a step that mounts the dashboard with an unapproved profile
\* opens none.
C28_ToolsListenerNeedsApproval ==
    /\ [](\A d \in Devices :
             dash[d].toolsSub => (DashboardMounted(d) /\ profile[d].isApproved))
    /\ [][ \A d \in Devices :
             /\ (dash[d].toolsSub /\ ~profile'[d].isApproved) => ~dash'[d].toolsSub
             /\ (~dash[d].toolsSub /\ DashboardMounted(d)' /\ ~profile'[d].isApproved)
                   => ~dash'[d].toolsSub
          ]_vars

\* the tools listener of an approved user is live, the approval has been
\* withdrawn in the record and the event of that write is about to be delivered
C28_Witness ==
    \E d \in Devices : \E k \in 1..Len(subs[d]) :
        /\ Screen(d) = "tool"
        /\ dash[d].toolsSub
        /\ user[d] # NoUser
        /\ subs[d][k].uid = user[d]
        /\ rec[user[d]].exists /\ ~rec[user[d]].isApproved
        /\ subs[d][k].queue = <<rec[user[d]]>>

\* C31: a lookup whose fetch is rejected, whose status is not a success or
\* whose body cannot be parsed ends with the error message set and no result;
\* every step that ends handleLookup leaves the loading flag false, and the
\* flag is false whenever no lookup is running on the dashboard; the step
\* that starts a lookup clears the previous result, summary and error.
C31_LookupFailureReported ==
    /\ [](\A d \in Devices : dash[d].pc = "idle" => ~dash[d].loading)
    /\ [][ \A d \in Devices :
              /\ \A o \in FetchOutcomes \ FetchSuccesses :
                    LookupFetched(d, o) =>
                       /\ dash'[d].pc = "idle"
                       /\ dash'[d].error # ""
                       /\ dash'[d].result = NoResult
              /\ \A o \in SummaryOutcomes :
                    LookupSummarized(d, o) =>
                       dash'[d].pc = "idle" /\ ~dash'[d].loading
              /\ LookupStart(d) =>
                    /\ dash'[d].loading
                    /\ dash'[d].result = NoResult
                    /\ dash'[d].aiAnalysis = ""
                    /\ dash'[d].error = ""
          ]_vars

\* a lookup has failed at its fetch on a dashboard that is still mounted:
\* the message is shown, there is no result and the form is enabled again
C31_Witness ==
    \E d \in Devices :
        /\ Screen(d) = "tool"
        /\ dash[d].pc = "idle" /\ ~dash[d].loading
        /\ dash[d].error # "" /\ dash[d].result = NoResult

\* C32: the error callback of a profile listener stores a diagnostic only
\* when the error is permission-denied; with any other error the user, the
\* profile, the conflict flag and the error state stay as they are. In both
\* cases the callback closes nothing: the failed listener, which the
\* repository has ended, is the only one that is gone, and every other
\* listener of the device stays open with its queue.
C32_ListenerErrorOnlyDenied ==
    [][ \A d \in Devices : \A k \in 1..Len(subs[d]) : \A c \in ErrCodes :
          ListenerError(d, k, c) =>
             /\ user' = user /\ profile' = profile
             /\ sessionConflict' = sessionConflict
             /\ loading' = loading
             /\ permissionError' =
                   IF c = "permission-denied"
                   THEN [permissionError EXCEPT ![d] = "Listener Denied"]
                   ELSE permissionError
             /\ c = "permission-denied" => permissionError'[d] # NoError
             /\ subs' = [subs EXCEPT ![d] = RemoveAt(@, k)]
             /\ \A j \in 1..Len(subs[d]) :
                   j # k => \E m \in 1..Len(subs'[d]) : subs'[d][m] = subs[d][j]
      ]_vars

\* a signed-in device whose listener was denied: the diagnostic is stored
\* and the user and the profile are still those of the session
C32_Witness ==
    \E d \in Devices :
        /\ permissionError[d] = "Listener Denied"
        /\ user[d] # NoUser /\ profile[d].uid = user[d]
        /\ ~loading[d] /\ inflight[d] = <<>>

\* C33: the handling of an identity event starts by clearing the bootstrap
\* error (and, for a subject, by setting the loading flag), and the step
\* that ends a handling, after a bootstrap that succeeded or failed or at
\* once for no subject, leaves the loading flag false; once the device has
\* been notified the flag is false whenever no handling is suspended, and
\* when the awaited calls settle every suspended handling ends in such a
\* state.
C33_HandlingEndsNotLoading ==
    /\ [](\A d \in Devices :
             (notified[d] /\ inflight[d] = <<>>) => ~loading[d])
    /\ [][ \A d \in Devices :
              /\ \A u \in UidsOf(d) :
                    AuthSubject(d, u) =>
                       /\ permissionError'[d] = NoError /\ loading'[d]
                       /\ Len(inflight'[d]) = Len(inflight[d]) + 1
              /\ AuthNoSubject(d) =>
                    /\ permissionError'[d] = NoError /\ ~loading'[d]
                    /\ inflight'[d] = inflight[d]
              /\ \A i \in 1..Len(inflight[d]) :
                    (\/ SetDocOk(d, i)
                     \/ \E c \in ErrCodes : GetDocFail(d, i, c) \/ SetDocFail(d, i, c)) =>
                       /\ ~loading'[d]
                       /\ inflight'[d] = RemoveAt(inflight[d], i)
          ]_vars
    /\ \A d \in Devices :
          (inflight[d] # <<>>) ~> (inflight[d] = <<>> /\ ~loading[d])

\* one device has ended the handling of a subject with a successful
\* bootstrap and the other with a failed one: neither shows the loading
\* screen and nothing is suspended on either
C33_Witness ==
    \E d, e \in Devices :
        /\ notified[d] /\ inflight[d] = <<>> /\ ~loading[d]
        /\ user[d] # NoUser /\ permissionError[d] = NoError
        /\ notified[e] /\ inflight[e] = <<>> /\ ~loading[e]
        /\ authUser[e] # NoUser /\ user[e] = NoUser
        /\ permissionError[e] \in {"Access Denied", "System Error"}
====
